---- MODULE Spec2Model ----
(***************************************************************************)
(* A model of two pieces of the repository:                                *)
(*   - torch/quantization/fx/qconfig_utils.py: validation, normalisation   *)
(*     and precedence-based resolution of a qconfig_dict;                  *)
(*   - benchmarks/.../trainers/DdpTrainer.py: the training loop and the    *)
(*     DDP communication hook with its asynchronous all-reduce callback.   *)
(*                                                                         *)
(* Python values are represented as follows.                               *)
(*   str        a sequence of symbols; '' is <<>>.  Module names are       *)
(*              sequences over Chars; the reserved keys of a qconfig_dict  *)
(*              are one-symbol sequences.                                  *)
(*   object     a module class or a function is <<"<class>", n>> or        *)
(*              <<"<function>", n>>; it is never equal to a str.           *)
(*   dict       a sequence of <<key, value>> pairs with distinct keys, in  *)
(*              insertion order (dict and OrderedDict iterate that way).   *)
(*   list       a sequence.                                                *)
(*   qconfig    a TLA+ string; Python's None is "None".                    *)
(***************************************************************************)
EXTENDS Integers, Sequences, FiniteSets, TLC

\* ------------------------------------------------------------------ bounds
\* longest module name, in characters
MaxNameLen == 3
\* total number of (key, qconfig) pairs in the user's three lists
MaxEntries == 2
\* number of nodes of the traced graph
MaxNodes == 2
\* number of top-level keys of a dictionary given to the validation alone
MaxKeys == 2
\* epochs of a training run, examples in its data, gradient buckets of the model
MaxEpochs == 2
MaxDataLen == 2
MaxBuckets == 2
\* all-reduce futures whose callback has not run yet
MaxInFlight == 1

\* ------------------------------------------------------------ Python values
Chars == {"a", "."}
None == "None"
EmptyStr == <<>>

Names == UNION {[1..k -> Chars] : k \in 0..MaxNameLen}

Max(S) == CHOOSE x \in S : \A y \in S : y <= x

\* dict operations
DictKeys(d) == {d[i][1] : i \in DOMAIN d}
DictHas(d, k) == k \in DictKeys(d)
DictIndex(d, k) == CHOOSE i \in DOMAIN d : d[i][1] = k
DictGet(d, k, default) == IF DictHas(d, k) THEN d[DictIndex(d, k)][2] ELSE default
DictSet(d, k, v) ==
    IF DictHas(d, k) THEN [d EXCEPT ![DictIndex(d, k)] = <<k, v>>]
    ELSE Append(d, <<k, v>>)

\* for (k, v) in pairs: d[k] = v
RECURSIVE DictUpdate(_, _)
DictUpdate(d, pairs) ==
    IF pairs = <<>> THEN d
    ELSE DictUpdate(DictSet(d, pairs[1][1], pairs[1][2]), Tail(pairs))

\* OrderedDict(pairs): a later pair with the same key replaces the value and
\* keeps the position of the first
OrderedDict(pairs) == DictUpdate(<<>>, pairs)

\* ------------------------------------------------------------- qconfig_dict
K_GLOBAL == EmptyStr
K_OBJECT_TYPE == <<"object_type">>
K_MODULE_NAME_REGEX == <<"module_name_regex">>
K_MODULE_NAME == <<"module_name">>

Model == <<"<class>", "Model">>
Linear == <<"<class>", "Linear">>
Add == <<"<function>", "add">>
\* the name of a method, as a call_method node targets it
MethodA == <<"a">>

ModuleTypes == {Model, Linear}
Functions == {Add}
ObjectTypes == ModuleTypes \cup Functions \cup {MethodA}

QConfigs == {"q1", None}
GlobalQConfig == "q0"
Fallbacks == {GlobalQConfig, None}

\* re.match(pattern, string): the pattern must match a prefix of the string.
\* Patterns are made of the characters of Chars ('.' matches any character),
\* 'x*' (any number of x) and a final '$' (end of the string).
RECURSIVE ReMatch(_, _)
ReMatch(pattern, string) ==
    IF pattern = <<>> THEN TRUE
    ELSE IF pattern = <<"$">> THEN string = <<>>
    ELSE IF Len(pattern) >= 2 /\ pattern[2] = "*"
    THEN \/ ReMatch(SubSeq(pattern, 3, Len(pattern)), string)
         \/ /\ string # <<>>
            /\ (pattern[1] = "." \/ pattern[1] = string[1])
            /\ ReMatch(pattern, Tail(string))
    ELSE /\ string # <<>>
         /\ (pattern[1] = "." \/ pattern[1] = string[1])
         /\ ReMatch(Tail(pattern), Tail(string))

RegexPatterns == {<<"a">>, <<".", "*">>, <<"a", ".", "a">>, <<"a", "$">>}

\* qconfig_dict[key] of a converted qconfig_dict (every section is present)
Section(qconfig_dict, key) == DictGet(qconfig_dict, key, <<>>)

get_flattened_qconfig_dict(qconfig_dict) ==
    LET flattened0 ==
            IF DictHas(qconfig_dict, K_GLOBAL)
            THEN DictSet(<<>>, EmptyStr, DictGet(qconfig_dict, K_GLOBAL, None))
            ELSE <<>>
        flatten_key(flattened, key) ==
            IF DictHas(qconfig_dict, key)
            THEN DictUpdate(flattened, DictGet(qconfig_dict, key, <<>>))
            ELSE flattened
    IN  flatten_key(flatten_key(flattened0, K_OBJECT_TYPE), K_MODULE_NAME)

convert_dict_to_ordered_dict(qconfig_dict) ==
    LET convert(d, key) == DictSet(d, key, OrderedDict(DictGet(d, key, <<>>)))
    IN  convert(convert(convert(qconfig_dict, K_OBJECT_TYPE),
                        K_MODULE_NAME_REGEX), K_MODULE_NAME)

get_object_type_qconfig(qconfig_dict, object_type, fallback_qconfig) ==
    DictGet(Section(qconfig_dict, K_OBJECT_TYPE), object_type, fallback_qconfig)

\* (mutant) the last matching pattern wins
RECURSIVE LastRegexMatch(_, _, _)
LastRegexMatch(items, module_name, fallback_qconfig) ==
    IF items = <<>> THEN fallback_qconfig
    ELSE IF ReMatch(items[Len(items)][1], module_name) THEN items[Len(items)][2]
    ELSE LastRegexMatch(SubSeq(items, 1, Len(items) - 1), module_name, fallback_qconfig)

RECURSIVE FirstRegexMatch(_, _, _)
FirstRegexMatch(items, module_name, fallback_qconfig) ==
    IF items = <<>> THEN fallback_qconfig
    ELSE IF ReMatch(items[1][1], module_name) THEN items[1][2]
    ELSE FirstRegexMatch(Tail(items), module_name, fallback_qconfig)

get_module_name_regex_qconfig(qconfig_dict, module_name, fallback_qconfig) ==
    FirstRegexMatch(Section(qconfig_dict, K_MODULE_NAME_REGEX), module_name,
                    fallback_qconfig)

\* target.rsplit('.', 1): everything before the last '.', '' without one
_parent_name(target) ==
    LET dots == {i \in 1..Len(target) : target[i] = "."}
    IN  IF dots = {} THEN EmptyStr ELSE SubSeq(target, 1, Max(dots) - 1)

\* (mutant) the dictionary is looked up before the name is tested for ''
RECURSIVE module_name_lookup_first(_, _, _)
module_name_lookup_first(qconfig_dict, module_name, fallback_qconfig) ==
    IF DictHas(DictGet(qconfig_dict, <<"module_name">>, <<>>), module_name)
    THEN [qconfig |-> DictGet(DictGet(qconfig_dict, <<"module_name">>, <<>>),
                              module_name, None),
          calls |-> 1]
    ELSE IF module_name = EmptyStr
    THEN [qconfig |-> fallback_qconfig, calls |-> 1]
    ELSE LET r == module_name_lookup_first(
                      qconfig_dict, _parent_name(module_name), fallback_qconfig)
         IN  [qconfig |-> r.qconfig, calls |-> r.calls + 1]

\* (mutant) no recursion to the parent scope
module_name_exact_only(qconfig_dict, module_name, fallback_qconfig) ==
    [qconfig |-> DictGet(DictGet(qconfig_dict, <<"module_name">>, <<>>),
                         module_name, fallback_qconfig),
     calls |-> 1]

\* the qconfig returned, and the number of calls of get_module_name_qconfig
\* made to return it (this one included)
RECURSIVE get_module_name_qconfig_calls(_, _, _)
get_module_name_qconfig_calls(qconfig_dict, module_name, fallback_qconfig) ==
    IF module_name = EmptyStr
    THEN [qconfig |-> fallback_qconfig, calls |-> 1]
    ELSE IF DictHas(Section(qconfig_dict, K_MODULE_NAME), module_name)
    THEN [qconfig |-> DictGet(Section(qconfig_dict, K_MODULE_NAME), module_name, None),
          calls |-> 1]
    ELSE LET r == get_module_name_qconfig_calls(
                      qconfig_dict, _parent_name(module_name), fallback_qconfig)
         IN  [qconfig |-> r.qconfig, calls |-> r.calls + 1]

get_module_name_qconfig(qconfig_dict, module_name, fallback_qconfig) ==
    get_module_name_qconfig_calls(qconfig_dict, module_name, fallback_qconfig).qconfig

\* (mutant) the regex result is preferred to the module_name result
get_qconfig_regex_first(qconfig_dict, module_type, module_name, global_qconfig) ==
    LET module_type_qconfig ==
            get_object_type_qconfig(qconfig_dict, module_type, global_qconfig)
        module_name_qconfig ==
            get_module_name_qconfig(qconfig_dict, module_name, module_type_qconfig)
    IN  get_module_name_regex_qconfig(qconfig_dict, module_name, module_name_qconfig)

get_qconfig(qconfig_dict, module_type, module_name, global_qconfig) ==
    LET module_type_qconfig ==
            get_object_type_qconfig(qconfig_dict, module_type, global_qconfig)
        module_name_regex_qconfig ==
            get_module_name_regex_qconfig(qconfig_dict, module_name, module_type_qconfig)
        module_name_qconfig ==
            get_module_name_qconfig(qconfig_dict, module_name, module_name_regex_qconfig)
    IN  module_name_qconfig

\* (mutant) the keys are checked from the last to the first
RECURSIVE check_keys_reversed(_, _, _)
check_keys_reversed(keys, allowed_keys, dict_name) ==
    IF keys = <<>> THEN [raised |-> FALSE]
    ELSE IF keys[Len(keys)] \notin allowed_keys
    THEN [raised |-> TRUE, exception |-> "ValueError", dict_name |-> dict_name,
          allowed_keys |-> allowed_keys, found |-> keys[Len(keys)]]
    ELSE check_keys_reversed(SubSeq(keys, 1, Len(keys) - 1), allowed_keys, dict_name)

\* the result of check_is_valid_config_dict: it returns None, or raises
\* ValueError with a message made of dict_name, allowed_keys and the key
RECURSIVE check_keys(_, _, _)
check_keys(keys, allowed_keys, dict_name) ==
    IF keys = <<>> THEN [raised |-> FALSE]
    ELSE IF keys[1] \notin allowed_keys
    THEN [raised |-> TRUE, exception |-> "ValueError", dict_name |-> dict_name,
          allowed_keys |-> allowed_keys, found |-> keys[1]]
    ELSE check_keys(Tail(keys), allowed_keys, dict_name)

check_is_valid_config_dict(config_dict, allowed_keys, dict_name) ==
    check_keys([i \in DOMAIN config_dict |-> config_dict[i][1]], allowed_keys, dict_name)

qconfig_dict_allowed_keys ==
    {K_GLOBAL, K_OBJECT_TYPE, K_MODULE_NAME_REGEX, K_MODULE_NAME}

check_is_valid_qconfig_dict(qconfig_dict) ==
    check_is_valid_config_dict(qconfig_dict, qconfig_dict_allowed_keys, "qconfig_dict")

\* ------------------------------------------------------ generate_qconfig_map
\* the module hierarchy of the traced model: named_modules() of root
ModuleNames == {EmptyStr, <<"a">>, <<"a", ".", "a">>}
ModuleClass(name) == IF name = <<"a", ".", "a">> THEN Linear ELSE Model

\* (mutant) a call_function node is resolved like a call_method node
node_qconfig_no_function(node, modules_, qconfig_dict, node_name_to_scope, global_qconfig) ==
    IF node.op = "get_attr"
    THEN get_qconfig(qconfig_dict, modules_[_parent_name(node.target)].type,
                     _parent_name(node.target), global_qconfig)
    ELSE IF node.op \in {"call_function", "call_method"}
    THEN get_qconfig(qconfig_dict, node_name_to_scope[node.name][2],
                     node_name_to_scope[node.name][1], global_qconfig)
    ELSE IF node.op = "call_module"
    THEN get_qconfig(qconfig_dict, modules_[node.target].type, node.target,
                     global_qconfig)
    ELSE None

\* the qconfig of one node, lines 122-146 of the loop body
node_qconfig(node, modules_, qconfig_dict, node_name_to_scope, global_qconfig) ==
    IF node.op = "get_attr"
    THEN LET module_name == _parent_name(node.target)
         IN  get_qconfig(qconfig_dict, modules_[module_name].type, module_name,
                         global_qconfig)
    ELSE IF node.op = "call_function"
    THEN LET function_qconfig ==
                 get_object_type_qconfig(qconfig_dict, node.target, global_qconfig)
             module_path == node_name_to_scope[node.name][1]
             module_type == node_name_to_scope[node.name][2]
         IN  get_qconfig(qconfig_dict, module_type, module_path, function_qconfig)
    ELSE IF node.op = "call_method"
    THEN LET module_path == node_name_to_scope[node.name][1]
             module_type == node_name_to_scope[node.name][2]
         IN  get_qconfig(qconfig_dict, module_type, module_path, global_qconfig)
    ELSE IF node.op = "call_module"
    THEN get_qconfig(qconfig_dict, modules_[node.target].type, node.target,
                     global_qconfig)
    ELSE None

\* (mutant) the qconfig is also set on the module a get_attr node reads from
RECURSIVE qconfig_map_loop_get_attr(_, _, _, _, _, _)
qconfig_map_loop_get_attr(nodes, modules_, qconfig_dict, node_name_to_scope, global_qconfig, qconfig_map) ==
    IF nodes = <<>> THEN [qconfig_map |-> qconfig_map, modules |-> modules_]
    ELSE LET node == nodes[1]
             qconfig == node_qconfig(node, modules_, qconfig_dict, node_name_to_scope,
                                     global_qconfig)
             modules1 ==
                 IF node.op = "call_module"
                 THEN [modules_ EXCEPT ![node.target].qconfig = qconfig]
                 ELSE IF node.op = "get_attr"
                 THEN [modules_ EXCEPT ![_parent_name(node.target)].qconfig = qconfig]
                 ELSE modules_
         IN  qconfig_map_loop_get_attr(Tail(nodes), modules1, qconfig_dict,
                                       node_name_to_scope, global_qconfig,
                                       DictSet(qconfig_map, node.name, qconfig))

\* the loop over input_graph.nodes: the map so far and the modules so far
RECURSIVE qconfig_map_loop(_, _, _, _, _, _)
qconfig_map_loop(nodes, modules_, qconfig_dict, node_name_to_scope, global_qconfig, qconfig_map) ==
    IF nodes = <<>> THEN [qconfig_map |-> qconfig_map, modules |-> modules_]
    ELSE LET node == nodes[1]
             qconfig == node_qconfig(node, modules_, qconfig_dict, node_name_to_scope,
                                     global_qconfig)
             modules1 == IF node.op = "call_module"
                         THEN [modules_ EXCEPT ![node.target].qconfig = qconfig]
                         ELSE modules_
         IN  qconfig_map_loop(Tail(nodes), modules1, qconfig_dict, node_name_to_scope,
                              global_qconfig, DictSet(qconfig_map, node.name, qconfig))

generate_qconfig_map(modules_, input_graph, qconfig_dict, node_name_to_scope) ==
    LET global_qconfig == DictGet(qconfig_dict, K_GLOBAL, None)
    IN  qconfig_map_loop(input_graph, modules_, qconfig_dict, node_name_to_scope,
                         global_qconfig, <<>>)

\* --------------------------------------------------------------- the inputs
\* what a user writes in one section: a list of (key, qconfig) pairs
PairLists(keys, n) == [1..n -> keys \X QConfigs]
ModuleNameKeys == ModuleNames

UnknownKey == <<"module_names">>
FuserKey == <<"additional_fuser_method_mapping">>
PreservedKey == <<"preserved_attributes">>
fuse_custom_config_dict_allowed_keys == {FuserKey, PreservedKey}
TopLevelKeys == qconfig_dict_allowed_keys \cup fuse_custom_config_dict_allowed_keys
                    \cup {UnknownKey}
AllowedKeySets == {qconfig_dict_allowed_keys, fuse_custom_config_dict_allowed_keys,
                   {K_GLOBAL, K_MODULE_NAME}, {}}

\* a qconfig_dict as the user writes it: the global qconfig or none, and the
\* sections that have entries
UserDict(has_global, object_type, module_name_regex, module_name) ==
    (IF has_global THEN <<<<K_GLOBAL, GlobalQConfig>>>> ELSE <<>>)
    \o (IF object_type # <<>> THEN <<<<K_OBJECT_TYPE, object_type>>>> ELSE <<>>)
    \o (IF module_name_regex # <<>>
        THEN <<<<K_MODULE_NAME_REGEX, module_name_regex>>>> ELSE <<>>)
    \o (IF module_name # <<>> THEN <<<<K_MODULE_NAME, module_name>>>> ELSE <<>>)

UserDicts ==
    UNION {
      UNION {
        UNION {
          {UserDict(has_global, object_type, module_name_regex, module_name) :
             has_global \in BOOLEAN,
             object_type \in PairLists(ObjectTypes, n1),
             module_name_regex \in PairLists(RegexPatterns, n2),
             module_name \in PairLists(ModuleNameKeys, n3)} :
          n3 \in 0..(MaxEntries - n1 - n2)} :
        n2 \in 0..(MaxEntries - n1)} :
      n1 \in 0..MaxEntries}

\* a dictionary of which only the keys matter: any keys in any order
KeyValue(key) ==
    IF key \in {K_OBJECT_TYPE, K_MODULE_NAME_REGEX, K_MODULE_NAME} THEN <<>> ELSE None
KeyDicts ==
    {[i \in DOMAIN keys |-> <<keys[i], KeyValue(keys[i])>>] :
        keys \in {ks \in UNION {[1..n -> TopLevelKeys] : n \in 0..MaxKeys} :
                     \A i, j \in DOMAIN ks : i # j => ks[i] # ks[j]}}

\* the nodes of a traced graph; their names are unique (torch.fx.Graph)
NodeName(i) == <<"n", i>>
NodeShapes ==
    [op : {"placeholder", "output"}, target : {<<"x">>}, scope : {EmptyStr}]
    \cup [op : {"get_attr"}, target : {<<"a", ".", "a">>}, scope : {EmptyStr}]
    \cup [op : {"call_function"}, target : Functions,
          scope : {EmptyStr, <<"a", ".", "a">>}]
    \cup [op : {"call_method"}, target : {MethodA}, scope : {<<"a">>}]
    \cup [op : {"call_module"}, target : ModuleNames \ {EmptyStr}, scope : {EmptyStr}]
Graphs == UNION {[1..n -> NodeShapes] : n \in 0..MaxNodes}
GraphNodes(g) == [i \in DOMAIN g |-> [name |-> NodeName(i), op |-> g[i].op,
                                      target |-> g[i].target]]
GraphScope(g) == [name \in {NodeName(i) : i \in DOMAIN g} |->
                    LET i == CHOOSE i \in DOMAIN g : NodeName(i) = name
                    IN  <<g[i].scope, ModuleClass(g[i].scope)>>]

\* ------------------------------------------------------------- DdpTrainer
DigitChars == <<"0", "1", "2", "3", "4", "5", "6", "7", "8", "9">>
RECURSIVE NatToStr(_)
NatToStr(n) ==
    IF n < 10 THEN <<DigitChars[n + 1]>>
    ELSE NatToStr(n \div 10) \o <<DigitChars[(n % 10) + 1]>>
\* str(n), as an f-string formats an int
IntToStr(n) == IF n < 0 THEN <<"-">> \o NatToStr(-n) ELSE NatToStr(n)

\* HookState.__init__
HookState == [batch_number |-> -1]
\* HookState.get_key
get_key(state, bucket_index) ==
    IntToStr(state.batch_number) \o <<",">> \o IntToStr(bucket_index)
\* (mutant) next_batch counts the batch twice
next_batch_twice(state) == [state EXCEPT !.batch_number = @ + 2]
\* HookState.next_batch
next_batch(state) == [state EXCEPT !.batch_number = @ + 1]

epoch_key(epoch_, index_) == IntToStr(epoch_) \o <<",">> \o IntToStr(index_)

\* (mutant) the callback asks the state for the key when it runs
callback_key_late(h, state) == get_key(state, h.bucket)

\* the key the callback of hook passes to record_hook_fut_end: the variable
\* key of the enclosing call of hook
callback_key(h, state) == h.key

\* ------------------------------------------------------------ state machine
VARIABLES
    qconfig_dict,   \* the dictionary given to the quantization tool
    pc,             \* "raw", "invalid", "ordered", "done" or "mapped"
    modules,        \* module name -> [type, qconfig]
    ret,            \* the last call: its name, arguments and result
    epochs,         \* DdpTrainer.epochs
    data_len,       \* len(data)
    buckets,        \* the number of gradient buckets of the DDP model
    tpc,            \* where train is: "init", "loop", "backward" or "done"
    epoch,          \* the loop variables of train
    index,
    hook_state,     \* the HookState registered with the DDP model
    hooked,         \* the number of buckets whose hook has run in this backward
    hooks,          \* every call of hook so far, and how far its future is
    late,           \* some callback ran after next_batch had left its batch
    hook_events,    \* key -> what was recorded and done under that key, in order
    recorded        \* the record_* calls of iteration_step: <<call, key>>

qvars == <<qconfig_dict, pc, modules, ret>>
tvars == <<epochs, data_len, buckets, tpc, epoch, index, hook_state, hooked, hooks,
           late, hook_events, recorded>>
vars == <<qconfig_dict, pc, modules, ret, epochs, data_len, buckets, tpc, epoch, index,
          hook_state, hooked, hooks, late, hook_events, recorded>>

InitModules ==
    [name \in ModuleNames |-> [type |-> ModuleClass(name), qconfig |-> "q_prev"]]

\* a trainer that was constructed and has not been asked to train
TrainerIdle ==
    /\ tpc = "init"
    /\ epoch = 0
    /\ index = 0
    /\ hook_state = [batch_number |-> 0]
    /\ hooked = 0
    /\ hooks = {}
    /\ late = FALSE
    /\ hook_events = <<>>
    /\ recorded = {}

\* no quantization under way
QuantIdle ==
    /\ qconfig_dict = <<>>
    /\ pc = "idle"
    /\ modules = InitModules
    /\ ret = [op |-> "none"]

\* ---- validation, conversion and lookups
\* the user's dictionary, before it is validated and converted
Init ==
    /\ qconfig_dict \in UserDicts \cup KeyDicts
    /\ pc = "raw"
    /\ modules = InitModules
    /\ ret = [op |-> "none"]
    /\ epochs = 0 /\ data_len = 0 /\ buckets = 1
    /\ TrainerIdle

CheckIsValidConfigDict ==
    /\ pc = "raw"
    /\ \E allowed_keys \in AllowedKeySets :
         ret' = [op |-> "check_is_valid_config_dict", allowed_keys |-> allowed_keys,
                 result |-> check_is_valid_config_dict(qconfig_dict, allowed_keys,
                                                       "config_dict")]
    /\ UNCHANGED <<qconfig_dict, pc, modules, tvars>>

CheckIsValidQconfigDict ==
    /\ pc = "raw"
    /\ LET result == check_is_valid_qconfig_dict(qconfig_dict)
       IN  /\ ret' = [op |-> "check_is_valid_qconfig_dict", result |-> result]
           /\ pc' = IF result.raised THEN "invalid" ELSE pc
    /\ UNCHANGED <<qconfig_dict, modules, tvars>>

ConvertDictToOrderedDict ==
    /\ pc = "raw"
    /\ qconfig_dict' = convert_dict_to_ordered_dict(qconfig_dict)
    /\ pc' = "ordered"
    /\ ret' = [op |-> "convert_dict_to_ordered_dict", before |-> qconfig_dict]
    /\ UNCHANGED <<modules, tvars>>

\* The lookups read a converted qconfig_dict and change nothing: a behaviour
\* records one of them and ends.
GetFlattenedQconfigDict ==
    /\ pc = "ordered"
    /\ ret' = [op |-> "get_flattened_qconfig_dict", before |-> qconfig_dict,
               flattened |-> get_flattened_qconfig_dict(qconfig_dict)]
    /\ pc' = "done"
    /\ UNCHANGED <<qconfig_dict, modules, tvars>>

GetObjectTypeQconfig ==
    /\ pc = "ordered"
    /\ \E object_type \in ObjectTypes, fallback_qconfig \in Fallbacks :
         ret' = [op |-> "get_object_type_qconfig", object_type |-> object_type,
                 fallback_qconfig |-> fallback_qconfig,
                 qconfig |-> get_object_type_qconfig(qconfig_dict, object_type,
                                                     fallback_qconfig)]
    /\ pc' = "done"
    /\ UNCHANGED <<qconfig_dict, modules, tvars>>

GetModuleNameRegexQconfig ==
    /\ pc = "ordered"
    /\ \E module_name \in Names, fallback_qconfig \in Fallbacks :
         ret' = [op |-> "get_module_name_regex_qconfig", module_name |-> module_name,
                 fallback_qconfig |-> fallback_qconfig,
                 qconfig |-> get_module_name_regex_qconfig(qconfig_dict, module_name,
                                                           fallback_qconfig)]
    /\ pc' = "done"
    /\ UNCHANGED <<qconfig_dict, modules, tvars>>

GetModuleNameQconfig ==
    /\ pc = "ordered"
    /\ \E module_name \in Names, fallback_qconfig \in Fallbacks :
         LET r == get_module_name_qconfig_calls(qconfig_dict, module_name,
                                                fallback_qconfig)
         IN  ret' = [op |-> "get_module_name_qconfig", module_name |-> module_name,
                     fallback_qconfig |-> fallback_qconfig,
                     qconfig |-> r.qconfig, calls |-> r.calls]
    /\ pc' = "done"
    /\ UNCHANGED <<qconfig_dict, modules, tvars>>

\* global_qconfig as generate_qconfig_map passes it: qconfig_dict.get("", None)
GetQconfig ==
    /\ pc = "ordered"
    /\ \E module_type \in ModuleTypes, module_name \in Names :
         LET global_qconfig == DictGet(qconfig_dict, K_GLOBAL, None)
         IN  ret' = [op |-> "get_qconfig", module_type |-> module_type,
                     module_name |-> module_name, global_qconfig |-> global_qconfig,
                     qconfig |-> get_qconfig(qconfig_dict, module_type, module_name,
                                             global_qconfig)]
    /\ pc' = "done"
    /\ UNCHANGED <<qconfig_dict, modules, tvars>>

Next ==
    \/ CheckIsValidConfigDict
    \/ CheckIsValidQconfigDict
    \/ ConvertDictToOrderedDict
    \/ GetFlattenedQconfigDict
    \/ GetObjectTypeQconfig
    \/ GetModuleNameRegexQconfig
    \/ GetModuleNameQconfig
    \/ GetQconfig

Spec == Init /\ [][Next]_vars

\* ---- generate_qconfig_map on a converted dictionary and a traced graph
\* Every entry of the dictionary has a qconfig of its own.
EntryQConfig(section, key) ==
    IF section = K_OBJECT_TYPE
    THEN CASE key = Model -> "q_Model" [] key = Linear -> "q_Linear"
           [] key = Add -> "q_add" [] OTHER -> "q_method_a"
    ELSE IF section = K_MODULE_NAME_REGEX
    THEN CASE key = <<"a">> -> "q_re_a" [] key = <<".", "*">> -> "q_re_any"
           [] key = <<"a", ".", "a">> -> "q_re_a.a" [] OTHER -> "q_re_a$"
    ELSE CASE key = EmptyStr -> "q_name_" [] key = <<"a">> -> "q_name_a"
           [] OTHER -> "q_name_a.a"
KeyLists(keys, n) == [1..n -> keys]
Entries(section, keys) == [i \in DOMAIN keys |-> <<keys[i], EntryQConfig(section, keys[i])>>]
MapDicts ==
    UNION {
      UNION {
        UNION {
          {convert_dict_to_ordered_dict(
             UserDict(has_global, Entries(K_OBJECT_TYPE, object_type),
                      Entries(K_MODULE_NAME_REGEX, module_name_regex),
                      Entries(K_MODULE_NAME, module_name))) :
             has_global \in BOOLEAN,
             object_type \in KeyLists(ObjectTypes, n1),
             module_name_regex \in KeyLists(RegexPatterns, n2),
             module_name \in KeyLists(ModuleNameKeys, n3)} :
          n3 \in 0..(MaxEntries - n1 - n2)} :
        n2 \in 0..(MaxEntries - n1)} :
      n1 \in 0..MaxEntries}

MapInit ==
    /\ qconfig_dict \in MapDicts
    /\ pc = "ordered"
    /\ modules = InitModules
    /\ ret = [op |-> "none"]
    /\ epochs = 0 /\ data_len = 0 /\ buckets = 1
    /\ TrainerIdle

GenerateQconfigMap ==
    /\ pc = "ordered"
    /\ \E g \in Graphs :
         LET r == generate_qconfig_map(modules, GraphNodes(g), qconfig_dict,
                                       GraphScope(g))
         IN  /\ ret' = [op |-> "generate_qconfig_map", input_graph |-> GraphNodes(g),
                        node_name_to_scope |-> GraphScope(g),
                        qconfig_dict_before |-> qconfig_dict,
                        qconfig_map |-> r.qconfig_map]
             /\ modules' = r.modules
    /\ pc' = "mapped"
    /\ UNCHANGED <<qconfig_dict, tvars>>

MapNext == GenerateQconfigMap

MapSpec == MapInit /\ [][MapNext]_vars

\* ---- DdpTrainer.train, the hook and the all-reduce futures
\* The DDP model calls the hook once for each bucket during loss.backward(),
\* in the order of the bucket indices.  The process group completes an
\* all-reduce at any later time, in any order, and the callback attached with
\* fut.then runs at any time after that.
TrainInit ==
    /\ QuantIdle
    /\ epochs \in 0..MaxEpochs
    /\ data_len \in 0..MaxDataLen
    /\ buckets \in 1..MaxBuckets
    /\ TrainerIdle

InFlight == {h \in hooks : h.status # "ended"}
EventsOf(key) == IF key \in DOMAIN hook_events THEN hook_events[key] ELSE <<>>
Record(events, key, what) ==
    [k \in DOMAIN events \cup {key} |->
        IF k = key THEN Append(IF k \in DOMAIN events THEN events[k] ELSE <<>>, what)
        ELSE events[k]]

\* train up to the loops: create_ddp_model makes the HookState
Train ==
    /\ tpc = "init"
    /\ hook_state' = HookState
    /\ epoch' = 0
    /\ index' = 0
    /\ tpc' = "loop"
    /\ UNCHANGED <<qvars, epochs, data_len, buckets, hooked, hooks, late, hook_events,
                   recorded>>

\* iteration_step up to the call of loss.backward()
IterationStepBegin ==
    /\ tpc = "loop"
    /\ epoch < epochs
    /\ index < data_len
    /\ hook_state' = next_batch(hook_state)
    /\ recorded' = recorded \cup
         {<<call, epoch_key(epoch, index)>> :
            call \in {"record_batch_start", "record_forward_start", "record_forward_end",
                      "record_backward_start"}}
    /\ hooked' = 0
    /\ tpc' = "backward"
    /\ UNCHANGED <<qvars, epochs, data_len, buckets, epoch, index, hooks, late,
                   hook_events>>

\* DdpTrainer.hook(state, bucket), called by the DDP model
Hook(bucket_index) ==
    /\ tpc = "backward"
    /\ bucket_index = hooked
    /\ bucket_index < buckets
    /\ Cardinality(InFlight) < MaxInFlight
    /\ LET key == get_key(hook_state, bucket_index)
       IN  /\ hook_events' = Record(Record(hook_events, key, "record_hook_fut_start"),
                                    key, "allreduce")
           /\ hooks' = hooks \cup {[epoch |-> epoch, index |-> index,
                                    bucket |-> bucket_index, key |-> key,
                                    status |-> "pending"]}
    /\ hooked' = hooked + 1
    /\ UNCHANGED <<qvars, epochs, data_len, buckets, tpc, epoch, index, hook_state,
                   late, recorded>>

\* the process group completes the all-reduce of one call of hook
AllreduceDone(e, i, b) ==
    /\ \E h \in hooks :
         /\ h.epoch = e /\ h.index = i /\ h.bucket = b
         /\ h.status = "pending"
         /\ hooks' = (hooks \ {h}) \cup {[h EXCEPT !.status = "done"]}
         /\ hook_events' = Record(hook_events, h.key, "future_done")
    /\ UNCHANGED <<qvars, epochs, data_len, buckets, tpc, epoch, index, hook_state,
                   hooked, late, recorded>>

\* callback(fut) of one call of hook
Callback(e, i, b) ==
    /\ \E h \in hooks :
         /\ h.epoch = e /\ h.index = i /\ h.bucket = b
         /\ h.status = "done"
         /\ hooks' = (hooks \ {h}) \cup {[h EXCEPT !.status = "ended"]}
         /\ hook_events' = Record(hook_events, callback_key(h, hook_state),
                                  "record_hook_fut_end")
         /\ late' = (late \/ hook_state.batch_number > h.epoch * data_len + h.index)
    /\ UNCHANGED <<qvars, epochs, data_len, buckets, tpc, epoch, index, hook_state,
                   hooked, recorded>>

\* iteration_step after loss.backward(), and the step of the two loops
IterationStepEnd ==
    /\ tpc = "backward"
    /\ hooked = buckets
    /\ recorded' = recorded \cup
         {<<call, epoch_key(epoch, index)>> :
            call \in {"record_backward_end", "record_batch_end"}}
    /\ IF index + 1 < data_len
       THEN epoch' = epoch /\ index' = index + 1
       ELSE epoch' = epoch + 1 /\ index' = 0
    /\ tpc' = "loop"
    /\ UNCHANGED <<qvars, epochs, data_len, buckets, hook_state, hooked, hooks, late,
                   hook_events>>

\* the loops are over: torch.cuda.synchronize
Synchronize ==
    /\ tpc = "loop"
    /\ (epoch >= epochs \/ data_len = 0)
    /\ tpc' = "done"
    /\ UNCHANGED <<qvars, epochs, data_len, buckets, epoch, index, hook_state, hooked,
                   hooks, late, hook_events, recorded>>

Epochs == 0..(MaxEpochs - 1)
Indices == 0..(MaxDataLen - 1)
Buckets == 0..(MaxBuckets - 1)

TrainNext ==
    \/ Train
    \/ IterationStepBegin
    \/ \E b \in Buckets : Hook(b)
    \/ \E e \in Epochs, i \in Indices, b \in Buckets : AllreduceDone(e, i, b)
    \/ \E e \in Epochs, i \in Indices, b \in Buckets : Callback(e, i, b)
    \/ IterationStepEnd
    \/ Synchronize

TrainSpec == TrainInit /\ [][TrainNext]_vars

\* every all-reduce completes, and the callback of a completed future runs
SomeAllreduceDone == \E e \in Epochs, i \in Indices, b \in Buckets : AllreduceDone(e, i, b)
SomeCallback == \E e \in Epochs, i \in Indices, b \in Buckets : Callback(e, i, b)
TrainFairSpec ==
    /\ TrainSpec
    /\ WF_vars(SomeAllreduceDone)
    /\ WF_vars(SomeCallback)

\* ================================================================ properties
Min(S) == CHOOSE x \in S : \A y \in S : x <= y
IsPrefixOf(s, t) == Len(s) <= Len(t) /\ s = SubSeq(t, 1, Len(s))
\* the value stored under key k in dict d
ValueAt(d, k) == d[CHOOSE i \in DOMAIN d : d[i][1] = k][2]
Dots(name) == {i \in 1..Len(name) : name[i] = "."}
NumComponents(name) == IF name = EmptyStr THEN 0 ELSE Cardinality(Dots(name)) + 1
\* the non-empty scopes of a module name: the name, its parent, its grandparent, ...
Scopes(name) ==
    ({name} \cup {SubSeq(name, 1, i - 1) : i \in Dots(name)}) \ {EmptyStr}
ObjectTypeSection == Section(qconfig_dict, K_OBJECT_TYPE)
RegexSection == Section(qconfig_dict, K_MODULE_NAME_REGEX)
ModuleNameSection == Section(qconfig_dict, K_MODULE_NAME)
\* the scopes of name that have a module_name entry, and the nearest of them
EntryScopes(name) == {p \in Scopes(name) : DictHas(ModuleNameSection, p)}
NearestScope(name) ==
    CHOOSE p \in EntryScopes(name) : \A q \in EntryScopes(name) : Len(q) <= Len(p)
\* the positions of the patterns that match name
Matching(name) == {i \in DOMAIN RegexSection : ReMatch(RegexSection[i][1], name)}
\* the object_type entry for object_type, or else the default
ObjectTypeOr(object_type, default) ==
    IF DictHas(ObjectTypeSection, object_type)
    THEN ValueAt(ObjectTypeSection, object_type) ELSE default
\* the first matching pattern's qconfig, or else the default
FirstMatchOr(name, default) ==
    IF Matching(name) # {} THEN RegexSection[Min(Matching(name))][2] ELSE default

\* ---- C1
\* C1: check_is_valid_config_dict raises ValueError exactly when some key of
\* the dictionary is not in allowed_keys; the error then names the first such
\* key in iteration order and the allowed set; otherwise it returns without
\* error.  check_is_valid_qconfig_dict checks against exactly
\* {"", "object_type", "module_name_regex", "module_name"}.
C1_Checked(result, allowed_keys) ==
    LET bad == {i \in DOMAIN qconfig_dict : qconfig_dict[i][1] \notin allowed_keys}
    IN  /\ result.raised <=> bad # {}
        /\ bad # {} =>
             /\ result.exception = "ValueError"
             /\ result.found = qconfig_dict[Min(bad)][1]
             /\ result.allowed_keys = allowed_keys
C1_RejectsUnknownKeys ==
    /\ ret.op = "check_is_valid_config_dict" => C1_Checked(ret.result, ret.allowed_keys)
    /\ ret.op = "check_is_valid_qconfig_dict" =>
         C1_Checked(ret.result, {<<>>, <<"object_type">>, <<"module_name_regex">>,
                                 <<"module_name">>})
\* two keys are outside the allowed set and the first of them is reported
C1_Witness ==
    /\ ret.op = "check_is_valid_config_dict"
    /\ ret.result.raised
    /\ Cardinality({i \in DOMAIN qconfig_dict :
                      qconfig_dict[i][1] \notin ret.allowed_keys}) = 2
    /\ qconfig_dict[1][1] \in ret.allowed_keys
    /\ ret.result.found = qconfig_dict[2][1]

C3_ParentScopes ==
    ret.op = "get_module_name_qconfig" =>
      /\ ret.calls <= NumComponents(ret.module_name) + 1
      /\ ret.qconfig =
           IF EntryScopes(ret.module_name) # {}
           THEN ValueAt(ModuleNameSection, NearestScope(ret.module_name))
           ELSE ret.fallback_qconfig
\* 'a.a' resolves to the entry of its parent 'a', although '' has an entry too
C3_Witness ==
    /\ ret.op = "get_module_name_qconfig"
    /\ ret.module_name = <<"a", ".", "a">>
    /\ DictKeys(ModuleNameSection) = {EmptyStr, <<"a">>}
    /\ ValueAt(ModuleNameSection, EmptyStr) # ValueAt(ModuleNameSection, <<"a">>)
    /\ ret.qconfig = ValueAt(ModuleNameSection, <<"a">>)
    /\ ret.calls = 2

\* ---- C4
\* C4: convert_dict_to_ordered_dict keeps the patterns of the user's list in
\* the order of their first occurrence, and get_module_name_regex_qconfig
\* returns the qconfig of the earliest pattern in that order that matches,
\* however many later ones match; it falls back exactly when none matches.
C4_FirstMatchWins ==
    /\ ret.op = "convert_dict_to_ordered_dict" =>
         LET list == DictGet(ret.before, K_MODULE_NAME_REGEX, <<>>)
             first(k) == Min({i \in DOMAIN list : list[i][1] = k})
             last(k) == Max({i \in DOMAIN list : list[i][1] = k})
         IN  /\ DictKeys(RegexSection) = {list[i][1] : i \in DOMAIN list}
             /\ \A i, j \in DOMAIN RegexSection :
                  i < j => first(RegexSection[i][1]) < first(RegexSection[j][1])
             /\ \A i \in DOMAIN RegexSection :
                  RegexSection[i][2] = list[last(RegexSection[i][1])][2]
    /\ ret.op = "get_module_name_regex_qconfig" =>
         ret.qconfig = IF Matching(ret.module_name) = {} THEN ret.fallback_qconfig
                       ELSE RegexSection[Min(Matching(ret.module_name))][2]
\* two patterns match, with different qconfigs, and the first is returned
C4_Witness ==
    /\ ret.op = "get_module_name_regex_qconfig"
    /\ Matching(ret.module_name) = {1, 2}
    /\ RegexSection[1][2] # RegexSection[2][2]
    /\ ret.qconfig = RegexSection[1][2]

\* ---- C5
\* the qconfig generate_qconfig_map gave the node, and the node's scope
MapValue(node) == ValueAt(ret.qconfig_map, node.name)
ScopePath(node) == ret.node_name_to_scope[node.name][1]
ScopeType(node) == ret.node_name_to_scope[node.name][2]
CallFunctionNodes ==
    {ret.input_graph[i] : i \in {j \in DOMAIN ret.input_graph :
                                   ret.input_graph[j].op = "call_function"}}
GlobalOfDict == DictGet(qconfig_dict, K_GLOBAL, None)
C6_Flattened ==
    ret.op = "get_flattened_qconfig_dict" =>
      /\ DictKeys(ret.flattened) =
           (IF DictHas(qconfig_dict, K_GLOBAL) THEN {EmptyStr} ELSE {})
           \cup DictKeys(ObjectTypeSection) \cup DictKeys(ModuleNameSection)
      /\ DictHas(qconfig_dict, K_GLOBAL) =>
           ValueAt(ret.flattened, EmptyStr) = ValueAt(qconfig_dict, K_GLOBAL)
      /\ \A k \in DictKeys(ObjectTypeSection) :
           ValueAt(ret.flattened, k) = ValueAt(ObjectTypeSection, k)
      /\ \A k \in DictKeys(ModuleNameSection) :
           ValueAt(ret.flattened, k) = ValueAt(ModuleNameSection, k)
      /\ qconfig_dict = ret.before

\* ---- C7
\* the number a str of decimal digits stands for
RECURSIVE StrToNat(_)
StrToNat(str) ==
    IF str = <<>> THEN 0
    ELSE 10 * StrToNat(SubSeq(str, 1, Len(str) - 1))
         + (CHOOSE d \in 0..9 : DigitChars[d + 1] = str[Len(str)])
Comma(key) == CHOOSE i \in DOMAIN key : key[i] = ","
KeyBatch(key) == StrToNat(SubSeq(key, 1, Comma(key) - 1))
KeyBucket(key) == StrToNat(SubSeq(key, Comma(key) + 1, Len(key)))
\* the batch number of the iteration a call of hook was made in
BatchOf(h) == h.epoch * data_len + h.index
\* C7: batch_number starts at -1 and is incremented once, by one, at the start
\* of every iteration_step: it is epoch * N + index during the iteration for
\* (epoch, index) and E * N - 1 after train; every key made in an iteration
\* carries that iteration's batch number, and the keys of two different
\* (iteration, bucket index) pairs differ.
C7_KeyIsCurrentBatch ==
    tpc # "init" =>
      /\ tpc = "loop" => hook_state.batch_number = epoch * data_len + index - 1
      /\ tpc = "backward" => hook_state.batch_number = epoch * data_len + index
      /\ tpc = "done" => hook_state.batch_number = epochs * data_len - 1
      /\ \A h \in hooks : KeyBatch(h.key) = BatchOf(h) /\ KeyBucket(h.key) = h.bucket
      /\ \A h1, h2 \in hooks :
           <<h1.epoch, h1.index, h1.bucket>> # <<h2.epoch, h2.index, h2.bucket>>
             => h1.key # h2.key
\* a whole run of two epochs over two examples, every bucket hooked each time
C7_Witness ==
    /\ tpc = "done"
    /\ epochs = 2 /\ data_len = 2 /\ buckets = 2
    /\ hook_state.batch_number = 3
    /\ Cardinality({h.key : h \in hooks}) = 8

\* ---- C8
HookLifeCycle ==
    <<"record_hook_fut_start", "allreduce", "future_done", "record_hook_fut_end">>
\* the key hook computed for h when it was called
KeyAtCall(h) == IntToStr(BatchOf(h)) \o <<",">> \o IntToStr(h.bucket)
Progress(h) == CASE h.status = "pending" -> 2 [] h.status = "done" -> 3
                 [] h.status = "ended" -> 4
Started(key) ==
    key \in DOMAIN hook_events /\ Len(hook_events[key]) >= 1
        /\ hook_events[key][1] = "record_hook_fut_start"
Ended(key) ==
    key \in DOMAIN hook_events
        /\ \E i \in DOMAIN hook_events[key] : hook_events[key][i] = "record_hook_fut_end"
\* what is recorded under every key is the start, then the all-reduce, then
\* its completion, then the end, each at most once, and as far as the call of
\* hook that computed this key has got
C8_Ordered ==
    /\ \A key \in DOMAIN hook_events : IsPrefixOf(hook_events[key], HookLifeCycle)
    /\ \A h \in hooks : EventsOf(KeyAtCall(h)) = SubSeq(HookLifeCycle, 1, Progress(h))
C9_AncestorBeforeRegex ==
    ret.op = "get_qconfig" =>
      ret.qconfig =
        IF EntryScopes(ret.module_name) # {}
        THEN ValueAt(ModuleNameSection, NearestScope(ret.module_name))
        ELSE FirstMatchOr(ret.module_name,
                          ObjectTypeOr(ret.module_type, ret.global_qconfig))
\* 'a.a' has no entry, its parent 'a' has one, a pattern matches 'a.a': the
\* parent's entry is returned
C9_Witness ==
    /\ ret.op = "get_qconfig"
    /\ ret.module_name = <<"a", ".", "a">>
    /\ EntryScopes(ret.module_name) = {<<"a">>}
    /\ Matching(ret.module_name) # {}
    /\ ret.qconfig = ValueAt(ModuleNameSection, <<"a">>)
    /\ ret.qconfig # FirstMatchOr(ret.module_name, ret.global_qconfig)

\* ---- C10
CallModuleTargets ==
    {ret.input_graph[i].target : i \in {j \in DOMAIN ret.input_graph :
                                          ret.input_graph[j].op = "call_module"}}
\* C10: the map has exactly one entry for each node, under the node's name;
\* a node that is no get_attr, call_function, call_method or call_module maps
\* to None; the module a call_module node targets has the node's qconfig as
\* its qconfig attribute; every other module, and qconfig_dict, are unchanged.
C10_MapAndModules ==
    ret.op = "generate_qconfig_map" =>
      /\ Len(ret.qconfig_map) = Len(ret.input_graph)
      /\ DictKeys(ret.qconfig_map) =
           {ret.input_graph[i].name : i \in DOMAIN ret.input_graph}
      /\ \A i \in DOMAIN ret.input_graph :
           LET node == ret.input_graph[i]
           IN  /\ node.op \notin {"get_attr", "call_function", "call_method",
                                  "call_module"} => MapValue(node) = None
               /\ node.op = "call_module" =>
                    modules[node.target].qconfig = MapValue(node)
      /\ \A name \in DOMAIN modules :
           /\ modules[name].type = InitModules[name].type
           /\ name \notin CallModuleTargets => modules[name] = InitModules[name]
      /\ DOMAIN modules = DOMAIN InitModules
      /\ qconfig_dict = ret.qconfig_dict_before
\* a placeholder and a call of module 'a.a': the module has the mapped qconfig,
\* which a pattern gave it, and module 'a' is untouched
C10_Witness ==
    /\ ret.op = "generate_qconfig_map"
    /\ Len(ret.input_graph) = 2
    /\ ret.input_graph[1].op = "placeholder"
    /\ ret.input_graph[2].op = "call_module"
    /\ ret.input_graph[2].target = <<"a", ".", "a">>
    /\ ValueAt(ret.qconfig_map, ret.input_graph[1].name) = None
    /\ Matching(<<"a", ".", "a">>) # {}
    /\ modules[<<"a", ".", "a">>].qconfig = RegexSection[Min(Matching(<<"a", ".", "a">>))][2]
    /\ modules[<<"a">>] = InitModules[<<"a">>]

====
